---- MODULE Spec2Model ----
(***************************************************************************)
(* M-Pesa payment reconciliation core of the Techwave backend:             *)
(* initiatePayment, mpesaCallback and queryPaymentStatus                   *)
(* (src/src/controllers/mpesaController.ts) over the tables orders,        *)
(* payments and mpesa_transactions (src/unnamed/part_024), with the        *)
(* provider client of src/src/services/mpesaService.ts.                    *)
(*                                                                         *)
(* Every handler is an async function: each `await pool.query(...)` is one *)
(* autocommitted statement, and other requests run between two awaits.     *)
(* A handler is therefore a process whose steps are its statements.        *)
(* Money is counted in hundredths (NUMERIC(12,2)).                         *)
(***************************************************************************)
EXTENDS Integers, Sequences, FiniteSets, TLC

\* ------------------------------------------------------------------ bounds
\* requests the service handles in one behaviour
MaxRequests == 3

\* handlers that can be in flight at the same time
MaxInFlight == 2

Procs == 1..MaxInFlight

\* ------------------------------------------------------------ SQL values
NULL == "NULL"

\* a TIMESTAMP column that is NULL (the clock starts at 1)
NullTime == 0

order_statusWithFailed ==
    {"pending", "processing", "shipped", "delivered", "cancelled", "failed"}

\* CREATE TYPE order_status AS ENUM (...)
order_status == {"pending", "processing", "shipped", "delivered", "cancelled"}

\* CREATE TYPE payment_method AS ENUM (...)
payment_method == {"mpesa", "card", "cash_on_delivery"}

\* CHECK (status IN (...)) of mpesa_transactions.status
transaction_status == {"pending", "completed", "failed", "cancelled"}

TerminalStatus == transaction_status \ {"pending"}

\* --------------------------------------------------------- request inputs
OrderIds == {1, 2}

\* an order id no row of orders carries
NoSuchOrder == 3

\* req.body.orderId absent
MissingOrderId == 0

\* identifiers the provider hands out for a push
CheckoutIds == {"ws_1", "ws_2"}

\* an identifier the provider never handed out (forged or replayed callback)
ForgedId == "ws_x"

\* req.body.amount: a JSON number (in hundredths), a non-numeric string such
\* as "abc", or absent
Num(c) == [kind |-> "num", cents |-> c]

NotANumber == [kind |-> "nan", cents |-> 0]

MissingAmount == [kind |-> "missing", cents |-> 0]

AmountInputs ==
    {MissingAmount, NotANumber, Num(50), Num(50000), Num(100000), Num(100001)}

\* req.body.phoneNumber as its characters
LocalPhone == <<"0", "7", "1", "2", "3", "4", "5", "6", "7", "8">>

BarePhone == <<"7", "1", "2", "3", "4", "5", "6", "7", "8">>

MissingPhone == <<>>

PhoneInputs == {LocalPhone, BarePhone, MissingPhone}

\* subscriber numbers: nine digits, the first a 7 or a 1
Subscribers ==
    { <<a, b, "2", "3", "4", "5", "6", "7", c>> :
        a \in {"7", "1"}, b \in {"0", "1", "9"}, c \in {"8", "0"} }

\* the ways a subscriber number is written: local, international with and
\* without the plus, with a blank after the country code, bare
WrittenPrefixes ==
    {<<"0">>, <<"+", "2", "5", "4">>, <<"2", "5", "4">>, <<"+", "2", "5", "4", " ">>, <<>>}

\* strings that are no phone number: empty, without a digit, too short, a
\* digit too many, a doubled 0, a 0 before the country code, nine digits that
\* start with 0 or with 254
OddPhones ==
    { <<>>, <<"a", "b", "c">>, <<"0">>, <<"1", "2", "3", "4", "5">>,
      <<"0", "7", "1", "2", "3", "4", "5", "6", "7", "8", "9">>,
      <<"0", "0", "7", "1", "2", "3", "4", "5", "6", "7", "8">>,
      <<"0", "2", "5", "4", "7", "1", "2", "3", "4", "5", "6", "7", "8">>,
      <<"0", "1", "2", "3", "4", "5", "6", "7", "8">>,
      <<"2", "5", "4", "7", "1", "2", "3", "4", "5">> }

\* arguments formatPhoneNumber is called with
PhoneArguments ==
    { prefix \o s : prefix \in WrittenPrefixes, s \in Subscribers } \cup OddPhones

\* stkCallback.ResultCode as JSON delivers it: a number or a string
NumCode(n) == [type |-> "number", val |-> n]

StrCode(n) == [type |-> "string", val |-> n]

ResultCodes == {NumCode(0), NumCode(1032), StrCode(0)}

\* stkCallback.ResultDesc, the provider's text for a code
ResultDescOf(ResultCode) ==
    IF ResultCode.val = 0
    THEN "The service request is processed successfully."
    ELSE "Request cancelled by user"

\* stkCallback.CallbackMetadata: absent, or an Item list of {Name, Value}
NoMetadata == [present |-> FALSE, Item |-> <<>>]

Meta(items) == [present |-> TRUE, Item |-> items]

FullMetadata ==
    Meta(<<[Name |-> "Amount", Value |-> "1000"],
           [Name |-> "MpesaReceiptNumber", Value |-> "ABC123"],
           [Name |-> "TransactionDate", Value |-> "20260101120000"],
           [Name |-> "PhoneNumber", Value |-> "254712345678"]>>)

ReceiptOnlyMetadata == Meta(<<[Name |-> "MpesaReceiptNumber", Value |-> "XYZ789"]>>)

\* the provider sends the metadata with a success result only
MetadataInputs(ResultCode) ==
    IF ResultCode = NumCode(0) THEN {NoMetadata, FullMetadata, ReceiptOnlyMetadata}
    ELSE IF ResultCode = StrCode(0) THEN {FullMetadata}
    ELSE {NoMetadata}

\* ------------------------------------------------------- pure helpers
Digits == {"0", "1", "2", "3", "4", "5", "6", "7", "8", "9"}

Abs(x) == IF x < 0 THEN -x ELSE x

\* s starts with the characters of prefix
StartsWith(s, prefix) ==
    /\ Len(s) >= Len(prefix)
    /\ \A i \in 1..Len(prefix) : s[i] = prefix[i]

\* the pattern without its end anchor: /^(\+?254|0)[17]\d{8}/
PhoneRegexTestUnanchored(s) ==
    \E prefix \in {<<"0">>, <<"2", "5", "4">>, <<"+", "2", "5", "4">>} :
        /\ StartsWith(s, prefix)
        /\ Len(s) >= Len(prefix) + 9
        /\ s[Len(prefix) + 1] \in {"1", "7"}
        /\ \A i \in (Len(prefix) + 2)..(Len(prefix) + 9) : s[i] \in Digits

\* phoneRegex = /^(\+?254|0)[17]\d{8}$/ ; phoneRegex.test(phoneNumber)
PhoneRegexTest(s) ==
    \E prefix \in {<<"0">>, <<"2", "5", "4">>, <<"+", "2", "5", "4">>} :
        /\ StartsWith(s, prefix)
        /\ Len(s) = Len(prefix) + 9
        /\ s[Len(prefix) + 1] \in {"1", "7"}
        /\ \A i \in (Len(prefix) + 2)..(Len(prefix) + 9) : s[i] \in Digits

\* formatPhoneNumber with the leading 0 kept: '254' + cleaned
formatPhoneNumberKeepingZero(phoneNumber) ==
    LET cleaned == SelectSeq(phoneNumber, LAMBDA ch : ch \in Digits)
    IN  IF StartsWith(cleaned, <<"0">>) THEN <<"2", "5", "4">> \o cleaned
        ELSE IF StartsWith(cleaned, <<"+", "2", "5", "4">>) THEN Tail(cleaned)
        ELSE IF StartsWith(cleaned, <<"2", "5", "4">>) THEN cleaned
        ELSE IF Len(cleaned) = 9 THEN <<"2", "5", "4">> \o cleaned
        ELSE cleaned

\* formatPhoneNumber: cleaned = phone.replace(/\D/g, ''), then the branches on
\* its prefix in the order of the code ('+254' comes after the non-digits are
\* gone); anything else is returned as cleaned
formatPhoneNumber(phoneNumber) ==
    LET cleaned == SelectSeq(phoneNumber, LAMBDA ch : ch \in Digits)
    IN  IF StartsWith(cleaned, <<"0">>) THEN <<"2", "5", "4">> \o Tail(cleaned)
        ELSE IF StartsWith(cleaned, <<"+", "2", "5", "4">>) THEN Tail(cleaned)
        ELSE IF StartsWith(cleaned, <<"2", "5", "4">>) THEN cleaned
        ELSE IF Len(cleaned) = 9 THEN <<"2", "5", "4">> \o cleaned
        ELSE cleaned

\* !amount : undefined and 0 are falsy, a non-empty string is truthy
AmountFalsy(amount) ==
    \/ amount.kind = "missing"
    \/ amount.kind = "num" /\ amount.cents = 0

\* amount < 1 : a comparison with NaN ("abc" < 1) is false
AmountBelowOne(amount) == amount.kind = "num" /\ amount.cents < 100

\* the 0.01 of the amount comparison, in hundredths
Tolerance == 1

\* Math.abs(order.total_amount - amount) > 0.01 : NaN > 0.01 is false.  The
\* operands are doubles: at a difference of exactly one hundredth the
\* subtraction lands on either side of the double 0.01 (1000.01 - 1000 is
\* below it, 1.01 - 1 above it), which roundsUp stands for.
AmountMismatch(total_amount, amount, roundsUp) ==
    /\ amount.kind = "num"
    /\ \/ Abs(total_amount - amount.cents) > Tolerance
       \/ Abs(total_amount - amount.cents) = Tolerance /\ roundsUp

\* ResultCode === 0 : strict equality, the string "0" is not the number 0
IsSuccessCode(ResultCode) == ResultCode.type = "number" /\ ResultCode.val = 0

RECURSIVE FindFrom(_, _, _)
FindFrom(items, name, i) ==
    IF i > Len(items) THEN NULL
    ELSE IF items[i].Name = name THEN items[i].Value
    ELSE FindFrom(items, name, i + 1)

\* (CallbackMetadata?.Item || []).find(item => item.Name === name)?.Value ;
\* undefined reaches the store as NULL
MetadataValue(CallbackMetadata, name) ==
    IF CallbackMetadata.present THEN FindFrom(CallbackMetadata.Item, name, 1) ELSE NULL

\* err.message of the errors pool.query throws: the store cannot be reached
\* or gives up the statement; or it rejects the statement's values
StoreFailure == "store failure"

UniqueViolation == "duplicate key value violates unique constraint"

InvalidNumeric == "invalid input syntax for type numeric"

InvalidEnum == "invalid input value for enum order_status"

\* errorHandler: statusCode = res.statusCode === 200 ? 500 : res.statusCode,
\* the answer carries err.message
errorHandler(err, statusCode) ==
    [status |-> IF statusCode = 200 THEN 500 ELSE statusCode, success |-> FALSE,
     message |-> err]

\* ------------------------------------------------------------------ state
VARIABLES
    orders,              \* table orders: order_id -> row
    payments,            \* table payments: order_id -> row (order_id is UNIQUE)
    mpesa_transactions,  \* table mpesa_transactions: checkout_request_id -> row
    pc,                  \* per handler: the statement it is about to run
    body,                \* per handler: req.body
    local,               \* per handler: its local constants (transaction, result)
    response,            \* the answer the service sent last
    requests,            \* requests accepted so far
    phone,               \* formatPhoneNumber: its argument
    formatted            \* formatPhoneNumber: whether it returned, and what

vars ==
    <<orders, payments, mpesa_transactions, pc, body, local, response, requests,
      phone, formatted>>

db == <<orders, payments, mpesa_transactions>>

\* NOW() of the store: a logical clock that ticks with every request
now == requests

NoBody == [kind |-> "none"]

NoLocal == [set |-> FALSE]

NoResponse == [route |-> "none", res |-> [status |-> 0]]

\* formatPhoneNumber has not returned
NotFormatted == [done |-> FALSE, value |-> <<>>, again |-> FALSE]

\* formatPhoneNumber is called with the value it returned, and has not
\* returned
CalledAgain == [done |-> FALSE, value |-> <<>>, again |-> TRUE]

\* formatPhoneNumber returned cleaned
Formatted(cleaned) == [done |-> TRUE, value |-> cleaned, again |-> FALSE]

NullNotes == [isNull |-> TRUE, text |-> <<>>]

Notes(t) == [isNull |-> FALSE, text |-> t]

NoPayment == [exists |-> FALSE]

Payment(method) ==
    [exists |-> TRUE, method |-> method, is_confirmed |-> FALSE,
     mpesa_code |-> NULL, confirmed_at |-> NullTime]

\* orders as the order routes left them (total_amount > 0, status of the
\* enum): order 1 awaits its M-Pesa payment, order 2 was paid by card and
\* delivered
InitialOrders ==
    (1 :> [status |-> "pending", notes |-> NullNotes, total_amount |-> 100000])
    @@ (2 :> [status |-> "delivered", notes |-> Notes(<<"gift">>), total_amount |-> 100000])

\* payments as the payment routes left them: at most one row per order
InitialPayments == (1 :> Payment("mpesa")) @@ (2 :> Payment("card"))

\* the service is up, no request has come in
ServiceInit ==
    /\ orders = InitialOrders
    /\ payments = InitialPayments
    /\ mpesa_transactions = <<>>
    /\ pc = [p \in Procs |-> "idle"]
    /\ body = [p \in Procs |-> NoBody]
    /\ local = [p \in Procs |-> NoLocal]
    /\ response = NoResponse
    /\ requests = 0

Init ==
    /\ ServiceInit
    /\ phone = <<>>
    /\ formatted = NotFormatted

\* the handler of p ends: it answered r on its route, one of
\* router.post('/stkpush' | '/callback' | '/query', ...)
Respond(p, route, r) ==
    /\ pc' = [pc EXCEPT ![p] = "idle"]
    /\ response' = [route |-> route, res |-> r]
    /\ body' = [body EXCEPT ![p] = NoBody]
    /\ local' = [local EXCEPT ![p] = NoLocal]
    /\ UNCHANGED <<phone, formatted>>

\* the handler of p goes on with the statement at label
Goto(p, label) ==
    /\ pc' = [pc EXCEPT ![p] = label]
    /\ UNCHANGED <<body, local, response, phone, formatted>>

\* a new request with body b gets the handler p; the handlers are alike,
\* the request takes the first idle one
Accept(p, b) ==
    /\ pc[p] = "idle"
    /\ \A q \in Procs : q < p => pc[q] # "idle"
    /\ requests < MaxRequests
    /\ requests' = requests + 1

\* --------------------------------------------------------------- store
\* the row of an INSERT that takes the accepted push for the payment
NewTransactionCompleted(orderId, result, phoneNumber, amount) ==
    [order_id |-> orderId,
     merchant_request_id |-> result.merchantRequestID,
     phone_number |-> phoneNumber,
     amount |-> amount.cents,
     mpesa_receipt_number |-> NULL,
     transaction_date |-> NULL,
     status |-> "completed",
     result_code |-> NULL,
     result_desc |-> NULL]

\* the row INSERT INTO mpesa_transactions (...) VALUES ($1..$6) creates; the
\* other columns take their defaults
NewTransaction(orderId, result, phoneNumber, amount) ==
    [order_id |-> orderId,
     merchant_request_id |-> result.merchantRequestID,
     phone_number |-> phoneNumber,
     amount |-> amount.cents,
     mpesa_receipt_number |-> NULL,
     transaction_date |-> NULL,
     status |-> "pending",
     result_code |-> NULL,
     result_desc |-> NULL]

\* the INSERT into a table whose checkout_request_id is not UNIQUE
InsertRejectedNoUnique(checkoutRequestID, amount) ==
    IF amount.kind # "num" THEN InvalidNumeric ELSE "accepted"

\* whether the store rejects the INSERT: amount is NUMERIC (a non-numeric
\* string is no valid input for it), checkout_request_id is UNIQUE
InsertRejected(checkoutRequestID, amount) ==
    IF amount.kind # "num" THEN InvalidNumeric
    ELSE IF checkoutRequestID \in DOMAIN mpesa_transactions THEN UniqueViolation
    ELSE "accepted"

\* the lookup without its WHERE clause: the first row of the table
SelectAnyTransaction(CheckoutRequestID) ==
    IF DOMAIN mpesa_transactions # {}
    THEN <<mpesa_transactions[CHOOSE id \in DOMAIN mpesa_transactions : TRUE]>>
    ELSE <<>>

\* SELECT * FROM mpesa_transactions WHERE checkout_request_id = $1
SelectTransaction(CheckoutRequestID) ==
    IF CheckoutRequestID \in DOMAIN mpesa_transactions
    THEN <<mpesa_transactions[CheckoutRequestID]>>
    ELSE <<>>

\* the update with the receipt and the date bound to each other's parameter
CompleteTransactionSwapped(CheckoutRequestID, mpesaReceiptNumber, transactionDate, ResultCode, ResultDesc) ==
    IF CheckoutRequestID \in DOMAIN mpesa_transactions
    THEN [mpesa_transactions EXCEPT ![CheckoutRequestID] =
            [@ EXCEPT !.status = "completed",
                      !.mpesa_receipt_number = transactionDate,
                      !.transaction_date = mpesaReceiptNumber,
                      !.result_code = ResultCode.val,
                      !.result_desc = ResultDesc]]
    ELSE mpesa_transactions

\* UPDATE mpesa_transactions SET status = 'completed', mpesa_receipt_number,
\* transaction_date, result_code, result_desc, updated_at = NOW()
\* WHERE checkout_request_id = $6   (no row matches: nothing changes)
CompleteTransaction(CheckoutRequestID, mpesaReceiptNumber, transactionDate, ResultCode, ResultDesc) ==
    IF CheckoutRequestID \in DOMAIN mpesa_transactions
    THEN [mpesa_transactions EXCEPT ![CheckoutRequestID] =
            [@ EXCEPT !.status = "completed",
                      !.mpesa_receipt_number = mpesaReceiptNumber,
                      !.transaction_date = transactionDate,
                      !.result_code = ResultCode.val,
                      !.result_desc = ResultDesc]]
    ELSE mpesa_transactions

\* UPDATE mpesa_transactions SET status = 'failed', result_code, result_desc,
\* updated_at = NOW() WHERE checkout_request_id = $4
FailTransaction(CheckoutRequestID, ResultCode, ResultDesc) ==
    IF CheckoutRequestID \in DOMAIN mpesa_transactions
    THEN [mpesa_transactions EXCEPT ![CheckoutRequestID] =
            [@ EXCEPT !.status = "failed",
                      !.result_code = ResultCode.val,
                      !.result_desc = ResultDesc]]
    ELSE mpesa_transactions

\* UPDATE payments SET is_confirmed = true, mpesa_code = $1, confirmed_at = NOW()
\* WHERE order_id = $2 AND method = 'mpesa'
ConfirmPayment(mpesaReceiptNumber, orderId) ==
    [o \in OrderIds |->
        IF o = orderId /\ payments[o].exists /\ payments[o].method = "mpesa"
        THEN [payments[o] EXCEPT !.is_confirmed = TRUE,
                                 !.mpesa_code = mpesaReceiptNumber,
                                 !.confirmed_at = now]
        ELSE payments[o]]

\* UPDATE orders SET status = 'processing' WHERE order_id = $1
ProcessOrder(orderId) ==
    [o \in OrderIds |->
        IF o = orderId THEN [orders[o] EXCEPT !.status = "processing"] ELSE orders[o]]

\* a status literal the column type order_status does not list is rejected
\* by the store when the statement is parsed, whatever rows it matches
OrderStatusRejected(status) == status \notin order_status

\* UPDATE orders SET status = 'failed',
\*   notes = CONCAT(COALESCE(notes, ''), ' | Payment failed: ', $1) WHERE order_id = $2
FailOrder(ResultDesc, orderId) ==
    [o \in OrderIds |->
        IF o = orderId
        THEN [orders[o] EXCEPT !.status = "failed",
                               !.notes = Notes(orders[o].notes.text \o <<" | Payment failed: ", ResultDesc>>)]
        ELSE orders[o]]

\* ----------------------------------------------------- initiatePayment
InitiateBodies ==
    [kind : {"initiate"}, phoneNumber : PhoneInputs, amount : AmountInputs,
     orderId : OrderIds \cup {NoSuchOrder, MissingOrderId}]

\* the handler of p keeps req.body and goes on with the statement at label
Proceed(p, b, l, label) ==
    /\ pc' = [pc EXCEPT ![p] = label]
    /\ body' = [body EXCEPT ![p] = b]
    /\ local' = [local EXCEPT ![p] = l]
    /\ UNCHANGED <<response, phone, formatted>>

\* the handler ends with the answer res
Answer(res) == [next |-> "idle", res |-> res]

\* the handler goes on with the statement at label
Continue(label) == [next |-> label, res |-> [status |-> 0]]

\* the body checks without the test of the phone pattern
FieldChecksNoPattern(b) ==
    IF b.phoneNumber = MissingPhone \/ AmountFalsy(b.amount) \/ b.orderId = MissingOrderId
    THEN Answer([status |-> 400, message |-> "Phone number, amount, and order ID are required"])
    ELSE IF AmountBelowOne(b.amount)
    THEN Answer([status |-> 400, message |-> "Amount must be at least KSh 1"])
    ELSE Continue("i_order")

\* lines 15-37: the checks of req.body, made before the first query: the
\* required fields, the phone pattern, the amount's minimum
FieldChecks(b) ==
    IF b.phoneNumber = MissingPhone \/ AmountFalsy(b.amount) \/ b.orderId = MissingOrderId
    THEN Answer([status |-> 400, message |-> "Phone number, amount, and order ID are required"])
    ELSE IF ~PhoneRegexTest(b.phoneNumber)
    THEN Answer([status |-> 400, message |-> "Invalid phone number format"])
    ELSE IF AmountBelowOne(b.amount)
    THEN Answer([status |-> 400, message |-> "Amount must be at least KSh 1"])
    ELSE Continue("i_order")

\* lines 15-56: the body checks, then the order lookup and the amount
\* comparison, as the answer or the next statement they lead to.  thrown: the
\* SELECT of the order fails; roundsUp: the float difference at the bound
\* exceeds 0.01
InitiateOutcome(b, thrown, roundsUp) ==
    IF FieldChecks(b).next = "idle"
    THEN FieldChecks(b)
    ELSE IF thrown
    THEN Answer(errorHandler(StoreFailure, 200))
    ELSE IF b.orderId \notin OrderIds
    THEN Answer([status |-> 404, message |-> "Order not found"])
    ELSE IF AmountMismatch(orders[b.orderId].total_amount, b.amount, roundsUp)
    THEN Answer([status |-> 400, message |-> "Payment amount does not match order total"])
    ELSE Continue("i_token")

\* the request is accepted and handled up to its first await that is answered
InitiateValidate(p) ==
    \E b \in InitiateBodies :
        /\ Accept(p, b)
        /\ UNCHANGED db
        /\ \E o \in {InitiateOutcome(b, thrown, roundsUp) : thrown \in BOOLEAN, roundsUp \in BOOLEAN} :
            IF o.next = "idle"
            THEN Respond(p, "/stkpush", o.res)
            ELSE Proceed(p, b, NoLocal, o.next)

\* what initiateSTKPush returns from its catch block, whatever was thrown in
\* it: a failed token request, the provider's rejection, a transport error
FailedPush ==
    [set |-> TRUE, success |-> FALSE, checkoutRequestID |-> NULL,
     merchantRequestID |-> NULL, error |-> "Failed to initiate payment"]

\* what it returns from the catch block when the provider answered the push
\* with an error status: error.response.data.errorMessage
RejectedPush ==
    [set |-> TRUE, success |-> FALSE, checkoutRequestID |-> NULL,
     merchantRequestID |-> NULL, error |-> "Bad Request - Invalid PhoneNumber"]

\* what initiateSTKPush returns for a 2xx answer with the identifier id
AcceptedPush(id) ==
    [set |-> TRUE, success |-> TRUE, checkoutRequestID |-> id,
     merchantRequestID |-> "mr_1", error |-> NULL]

\* the handler without the test of result.success
AfterPushUnchecked(result) == Continue("i_insert")

\* lines 66-71: a result without success is answered 400 with its error
AfterPush(result) ==
    IF ~result.success
    THEN Answer([status |-> 400, message |-> result.error])
    ELSE Continue("i_insert")

\* the handler of p has the result of initiateSTKPush
PushReturns(p, result) ==
    IF AfterPush(result).next = "idle"
    THEN Respond(p, "/stkpush", AfterPush(result).res)
    ELSE Proceed(p, body[p], result, AfterPush(result).next)

\* initiateSTKPush, generateAccessToken: the token request; its error is caught
\* by initiateSTKPush and comes back as { success: false }
InitiateToken(p) ==
    /\ pc[p] = "i_token"
    /\ UNCHANGED <<db, requests>>
    /\ \E granted \in BOOLEAN :
        IF granted
        THEN Goto(p, "i_push")
        ELSE PushReturns(p, FailedPush)

\* how the push request ends: the provider accepts it with an identifier,
\* rejects it with an error status and message, or the transport fails
\* (timeout, DNS, TLS: the error has no response)
PushAnswers ==
    {[kind |-> "accepted", id |-> id] : id \in CheckoutIds}
    \cup {[kind |-> "rejected", id |-> NULL], [kind |-> "transport", id |-> NULL]}

\* initiateSTKPush from its POST on: a 2xx answer gives the identifiers the
\* provider chose; the catch block takes every error, of the provider and of
\* the transport alike, and returns { success: false }: nothing is thrown
initiateSTKPush(answer) ==
    [threw |-> FALSE,
     value |-> IF answer.kind = "accepted" THEN AcceptedPush(answer.id)
               ELSE IF answer.kind = "rejected" THEN RejectedPush
               ELSE FailedPush]

\* the POST of the push request is over; an exception of initiateSTKPush
\* would go through initiatePayment to the error handler
InitiatePush(p) ==
    /\ pc[p] = "i_push"
    /\ UNCHANGED <<db, requests>>
    /\ \E returned \in {initiateSTKPush(answer) : answer \in PushAnswers} :
        IF returned.threw
        THEN Respond(p, "/stkpush", errorHandler(returned.value.error, 200))
        ELSE PushReturns(p, returned.value)

\* lines 73-94: the INSERT of the pending transaction and the answer
InitiateInsert(p) ==
    /\ pc[p] = "i_insert"
    /\ UNCHANGED <<orders, payments, requests>>
    /\ \E thrown \in BOOLEAN :
        IF thrown \/ InsertRejected(local[p].checkoutRequestID, body[p].amount) # "accepted"
        THEN /\ Respond(p, "/stkpush",
                    errorHandler(IF thrown THEN StoreFailure
                                 ELSE InsertRejected(local[p].checkoutRequestID, body[p].amount),
                                 200))
             /\ UNCHANGED mpesa_transactions
        ELSE /\ mpesa_transactions' =
                  mpesa_transactions @@
                  (local[p].checkoutRequestID :>
                     NewTransaction(body[p].orderId, local[p], body[p].phoneNumber, body[p].amount))
             /\ Respond(p, "/stkpush", [status |-> 200, success |-> TRUE,
                            checkoutRequestID |-> local[p].checkoutRequestID])

\* -------------------------------------------------------- mpesaCallback
\* a body without Body or without Body.stkCallback
MalformedBody == [kind |-> "callback", hasStk |-> FALSE]

Callback(id, ResultCode, CallbackMetadata) ==
    [kind |-> "callback", hasStk |-> TRUE, CheckoutRequestID |-> id,
     ResultCode |-> ResultCode, ResultDesc |-> ResultDescOf(ResultCode),
     CallbackMetadata |-> CallbackMetadata]

CallbackBodies ==
    { Callback(id, rc, md) : id \in CheckoutIds \cup {ForgedId}, rc \in ResultCodes,
                             md \in {NoMetadata, FullMetadata, ReceiptOnlyMetadata} }
    \cup {MalformedBody}

\* the handler without the shape check: destructuring the missing
\* stkCallback throws a TypeError
CallbackOutcomeUnchecked(b, thrown) ==
    IF ~b.hasStk
    THEN Answer(errorHandler("Cannot destructure property of undefined", 200))
    ELSE IF thrown
    THEN Answer(errorHandler(StoreFailure, 200))
    ELSE IF Len(SelectTransaction(b.CheckoutRequestID)) = 0
    THEN Answer([status |-> 404, message |-> "Transaction not found",
                 logged |-> b.CheckoutRequestID])
    ELSE Continue(IF IsSuccessCode(b.ResultCode) THEN "c_s_ledger" ELSE "c_f_ledger")

\* lines 105-135: the shape check, the transaction lookup and the branch on
\* ResultCode, as the answer or the next statement they lead to.  thrown: the
\* SELECT of the transaction fails.  logged: the identifier the handler
\* writes to the log with 'Transaction not found'; it is not sent
CallbackOutcome(b, thrown) ==
    IF ~b.hasStk
    THEN Answer([status |-> 400, message |-> "Invalid callback data"])
    ELSE IF thrown
    THEN Answer(errorHandler(StoreFailure, 200))
    ELSE IF Len(SelectTransaction(b.CheckoutRequestID)) = 0
    THEN Answer([status |-> 404, message |-> "Transaction not found",
                 logged |-> b.CheckoutRequestID])
    ELSE Continue(IF IsSuccessCode(b.ResultCode) THEN "c_s_ledger" ELSE "c_f_ledger")

\* the request is accepted and handled up to its first await that is answered;
\* transaction = transactionResult.rows[0], orderId = transaction.order_id
CallbackLookup(p) ==
    \E b \in CallbackBodies :
        /\ b.hasStk => b.CallbackMetadata \in MetadataInputs(b.ResultCode)
        /\ Accept(p, b)
        /\ UNCHANGED db
        /\ \E o \in {CallbackOutcome(b, thrown) : thrown \in BOOLEAN} :
            IF o.next = "idle"
            THEN Respond(p, "/callback", o.res)
            ELSE Proceed(p, b,
                    [set |-> TRUE,
                     status |-> SelectTransaction(b.CheckoutRequestID)[1].status,
                     orderId |-> SelectTransaction(b.CheckoutRequestID)[1].order_id],
                    o.next)

\* lines 151-162: the transaction becomes completed
CallbackCompleteTransaction(p) ==
    /\ pc[p] = "c_s_ledger"
    /\ UNCHANGED <<orders, payments, requests>>
    /\ \E thrown \in BOOLEAN :
        IF thrown
        THEN Respond(p, "/callback", errorHandler(StoreFailure, 200)) /\ UNCHANGED mpesa_transactions
        ELSE /\ mpesa_transactions' =
                  CompleteTransaction(body[p].CheckoutRequestID,
                      MetadataValue(body[p].CallbackMetadata, "MpesaReceiptNumber"),
                      MetadataValue(body[p].CallbackMetadata, "TransactionDate"),
                      body[p].ResultCode, body[p].ResultDesc)
             /\ Goto(p, "c_s_payment")

\* lines 164-172: the payment record becomes confirmed
CallbackConfirmPayment(p) ==
    /\ pc[p] = "c_s_payment"
    /\ UNCHANGED <<orders, mpesa_transactions, requests>>
    /\ \E thrown \in BOOLEAN :
        IF thrown
        THEN Respond(p, "/callback", errorHandler(StoreFailure, 200)) /\ UNCHANGED payments
        ELSE /\ payments' =
                  ConfirmPayment(MetadataValue(body[p].CallbackMetadata, "MpesaReceiptNumber"),
                                 local[p].orderId)
             /\ Goto(p, "c_s_order")

\* lines 174-186: the order becomes processing; the acknowledgment
CallbackProcessOrder(p) ==
    /\ pc[p] = "c_s_order"
    /\ UNCHANGED <<payments, mpesa_transactions, requests>>
    /\ \E thrown \in BOOLEAN :
        IF thrown \/ OrderStatusRejected("processing")
        THEN /\ Respond(p, "/callback",
                    errorHandler(IF thrown THEN StoreFailure ELSE InvalidEnum, 200))
             /\ UNCHANGED orders
        ELSE /\ orders' = ProcessOrder(local[p].orderId)
             /\ Respond(p, "/callback", [status |-> 200, ResultCode |-> 0, ResultDesc |-> "Success"])

\* lines 196-205: the transaction becomes failed
CallbackFailTransaction(p) ==
    /\ pc[p] = "c_f_ledger"
    /\ UNCHANGED <<orders, payments, requests>>
    /\ \E thrown \in BOOLEAN :
        IF thrown
        THEN Respond(p, "/callback", errorHandler(StoreFailure, 200)) /\ UNCHANGED mpesa_transactions
        ELSE /\ mpesa_transactions' =
                  FailTransaction(body[p].CheckoutRequestID, body[p].ResultCode,
                                  body[p].ResultDesc)
             /\ Goto(p, "c_f_order")

\* lines 207-216: the order becomes failed with the note; the acknowledgment
CallbackFailOrder(p) ==
    /\ pc[p] = "c_f_order"
    /\ UNCHANGED <<payments, mpesa_transactions, requests>>
    /\ \E thrown \in BOOLEAN :
        IF thrown \/ OrderStatusRejected("failed")
        THEN /\ Respond(p, "/callback",
                    errorHandler(IF thrown THEN StoreFailure ELSE InvalidEnum, 200))
             /\ UNCHANGED orders
        ELSE /\ orders' = FailOrder(body[p].ResultDesc, local[p].orderId)
             /\ Respond(p, "/callback", [status |-> 200, ResultCode |-> 0, ResultDesc |-> "Callback received"])

\* --------------------------------------------------- queryPaymentStatus
MissingCheckoutId == ""

QueryBodies ==
    [kind : {"query"},
     checkoutRequestID : CheckoutIds \cup {ForgedId, MissingCheckoutId}]

\* the cached answer without the stored receipt number
CachedResultNoReceipt(txn) ==
    [status |-> 200, txnStatus |-> txn.status, resultCode |-> txn.result_code,
     resultDesc |-> txn.result_desc, mpesaReceiptNumber |-> NULL]

\* the cached answer of lines 245-252
CachedResult(txn) ==
    [status |-> 200, txnStatus |-> txn.status, resultCode |-> txn.result_code,
     resultDesc |-> txn.result_desc, mpesaReceiptNumber |-> txn.mpesa_receipt_number]

\* lines 226-252: the body check, the transaction lookup, the cached answer,
\* as the answer or the next statement they lead to.  thrown: the SELECT of
\* the transaction fails
QueryOutcome(b, thrown) ==
    IF b.checkoutRequestID = MissingCheckoutId
    THEN Answer([status |-> 400, message |-> "Checkout Request ID is required"])
    ELSE IF thrown
    THEN Answer(errorHandler(StoreFailure, 200))
    ELSE IF Len(SelectTransaction(b.checkoutRequestID)) = 0
    THEN Answer([status |-> 404, message |-> "Transaction not found"])
    ELSE IF SelectTransaction(b.checkoutRequestID)[1].status # "pending"
    THEN Answer(CachedResult(SelectTransaction(b.checkoutRequestID)[1]))
    ELSE Continue("q_token")

\* the request is accepted and handled up to its first await that is answered
QueryLookup(p) ==
    \E b \in QueryBodies :
        /\ Accept(p, b)
        /\ UNCHANGED db
        /\ \E o \in {QueryOutcome(b, thrown) : thrown \in BOOLEAN} :
            IF o.next = "idle"
            THEN Respond(p, "/query", o.res)
            ELSE Proceed(p, b, NoLocal, o.next)

\* querySTKPushStatus, generateAccessToken: the token request
QueryToken(p) ==
    /\ pc[p] = "q_token"
    /\ UNCHANGED <<db, requests>>
    /\ \E granted \in BOOLEAN :
        IF granted
        THEN Goto(p, "q_post")
        ELSE Respond(p, "/query", [status |-> 400, message |-> "Failed to query payment status"])

\* response.data.ResultCode of the status query: the codes of a callback, and
\* the cancellation as the string the status query delivers
StatusResultCodes == ResultCodes \cup {StrCode(1032)}

\* querySTKPushStatus, lines 218-223: the provider answered
StatusAnswered(resultCode) == [success |-> TRUE, resultCode |-> resultCode]

\* querySTKPushStatus, lines 225-232: the request failed
StatusFailed == [success |-> FALSE, error |-> "Failed to query payment status"]

\* what querySTKPushStatus returns to queryPaymentStatus
StatusResults == {StatusAnswered(resultCode) : resultCode \in StatusResultCodes}
                 \cup {StatusFailed}

\* the answer that reports a code other than '0' as a failure
QueryAnswerReportingFailed(result) ==
    IF result.success
    THEN [status |-> 200,
          txnStatus |-> IF result.resultCode = StrCode(0) THEN "completed" ELSE "failed",
          resultCode |-> result.resultCode]
    ELSE [status |-> 400, message |-> result.error]

\* lines 257-268: the answer to the query of a pending transaction
QueryAnswer(result) ==
    IF result.success
    THEN [status |-> 200,
          txnStatus |-> IF result.resultCode = StrCode(0) THEN "completed" ELSE "pending",
          resultCode |-> result.resultCode]
    ELSE [status |-> 400, message |-> result.error]

\* the status query that also stores what the provider answered
QueryPostSyncing(p) ==
    /\ pc[p] = "q_post"
    /\ UNCHANGED <<orders, payments, requests>>
    /\ \E result \in StatusResults :
        /\ mpesa_transactions' =
             IF result.success /\ result.resultCode = StrCode(0)
             THEN CompleteTransaction(body[p].checkoutRequestID, NULL, NULL,
                                      result.resultCode, ResultDescOf(result.resultCode))
             ELSE mpesa_transactions
        /\ Respond(p, "/query", QueryAnswer(result))

\* querySTKPushStatus: the POST of the status query; lines 257-268: the answer
QueryPost(p) ==
    /\ pc[p] = "q_post"
    /\ UNCHANGED <<db, requests>>
    /\ \E result \in StatusResults : Respond(p, "/query", QueryAnswer(result))

\* ------------------------------------------------------------ behaviours
\* the requests are handled concurrently: any handler takes its next step
Next ==
    \E p \in Procs :
        \/ InitiateValidate(p)
        \/ InitiateToken(p)
        \/ InitiatePush(p)
        \/ InitiateInsert(p)
        \/ CallbackLookup(p)
        \/ CallbackCompleteTransaction(p)
        \/ CallbackConfirmPayment(p)
        \/ CallbackProcessOrder(p)
        \/ CallbackFailTransaction(p)
        \/ CallbackFailOrder(p)
        \/ QueryLookup(p)
        \/ QueryToken(p)
        \/ QueryPost(p)

Spec == Init /\ [][Next]_vars

\* the requests arrive one after the other: a handler runs to its answer
\* before the next request comes in
SerialNext == Next /\ Cardinality({p \in Procs : pc'[p] # "idle"}) <= 1

SerialSpec == Init /\ [][SerialNext]_vars

\* the steps of the handler p that come by themselves: a statement of the
\* store is answered or fails, and the token request carries timeout: 30000.
\* The two axios.post calls (push, status query) carry no timeout: their
\* step waits for the provider's answer or a transport error
Responsive(p) ==
    \/ InitiateToken(p)
    \/ InitiateInsert(p)
    \/ CallbackCompleteTransaction(p)
    \/ CallbackConfirmPayment(p)
    \/ CallbackProcessOrder(p)
    \/ CallbackFailTransaction(p)
    \/ CallbackFailOrder(p)
    \/ QueryToken(p)

\* the service with its scheduling: no handler waits forever for the store or
\* for the token request
LiveSpec == Spec /\ \A p \in Procs : WF_vars(Responsive(p))

\* formatPhoneNumber on its own: called once with any of the arguments
PhoneInit ==
    /\ ServiceInit
    /\ phone \in PhoneArguments
    /\ formatted = NotFormatted

\* formatPhoneNumber(phone) returns
FormatPhone ==
    /\ ~formatted.done
    /\ formatted' = [Formatted(formatPhoneNumber(phone)) EXCEPT !.again = formatted.again]
    /\ UNCHANGED <<orders, payments, mpesa_transactions, pc, body, local, response,
                   requests, phone>>

\* formatPhoneNumber is called with the value it returned
FormatAgain ==
    /\ formatted.done
    /\ ~formatted.again
    /\ phone' = formatted.value
    /\ formatted' = CalledAgain
    /\ UNCHANGED <<orders, payments, mpesa_transactions, pc, body, local, response,
                   requests>>

PhoneNext == FormatPhone \/ FormatAgain

PhoneSpec == PhoneInit /\ [][PhoneNext]_vars

\* ================================================================ claims
\* the statements of mpesaCallback that write the store
CallbackWriting == {"c_s_ledger", "c_s_payment", "c_s_order", "c_f_ledger", "c_f_order"}

SuccessWriting == {"c_s_ledger", "c_s_payment", "c_s_order"}

\* the handler p takes a step
Steps(p) == pc'[p] # pc[p]

\* the handler p ends with the answer the error handler gives to err
EndsWith(p, err) ==
    /\ pc'[p] = "idle"
    /\ response'.res.status = 500
    /\ response'.res.message = err

\* C1 - Idempotent reconciliation: a callback that finds its transaction
\* already in a terminal status leaves the transaction, the order and the
\* payment record as they are, whatever its result code.
C1_IdempotentReconciliation ==
    [][\A p \in Procs :
          (pc[p] \in CallbackWriting /\ local[p].status \in TerminalStatus /\ Steps(p))
          => db' = db]_vars

\* C2 - A transaction's status changes at most once: once it is completed,
\* failed or cancelled, no step of any handler changes it.
C2_StatusChangesOnce ==
    [][\A id \in DOMAIN mpesa_transactions :
          mpesa_transactions[id].status \in TerminalStatus
          => mpesa_transactions'[id].status = mpesa_transactions[id].status]_vars

\* C3 - Of two callbacks for one identifier that are handled concurrently,
\* at most one has seen the transaction pending and goes on to write.
C3_OneConcurrentTransition ==
    \A p, q \in Procs :
        (/\ p # q
         /\ pc[p] \in CallbackWriting
         /\ pc[q] \in CallbackWriting
         /\ body[p].CheckoutRequestID = body[q].CheckoutRequestID)
        => ~(local[p].status = "pending" /\ local[q].status = "pending")

\* C4 - Atomicity of the success branch: when one of the three writes of a
\* success callback fails, neither the transaction nor the payment record
\* shows a write of that callback once the handler has ended.
C4_SuccessBranchAtomic ==
    [][\A p \in Procs :
          (pc[p] \in SuccessWriting /\ EndsWith(p, StoreFailure))
          => /\ mpesa_transactions'[body[p].CheckoutRequestID].status = local[p].status
             /\ payments'[local[p].orderId].exists
                => payments'[local[p].orderId].confirmed_at # now]_vars

\* C5 - Atomicity of the failure branch: when the handler of a failure
\* callback for a pending transaction has ended, the transaction is failed
\* only if the order is failed too.
C5_FailureBranchAtomic ==
    [][\A p \in Procs :
          (/\ pc[p] \in {"c_f_ledger", "c_f_order"}
           /\ local[p].status = "pending"
           /\ pc'[p] = "idle"
           /\ mpesa_transactions'[body[p].CheckoutRequestID].status = "failed")
          => orders'[local[p].orderId].status = "failed"]_vars

\* C6 - Unknown-identifier safety: every change of the transactions, the
\* orders and the payment records is made by the insert of initiatePayment or
\* by a callback whose CheckoutRequestID is stored; a callback with another
\* identifier writes nothing.
C6_UnknownIdentifierSafety ==
    [][db' # db
       => \E p \in Procs :
            /\ Steps(p)
            /\ \/ pc[p] = "i_insert"
               \/ /\ pc[p] \in CallbackWriting
                  /\ body[p].CheckoutRequestID \in DOMAIN mpesa_transactions]_vars

\* C6 witness: a callback was answered "Transaction not found" while
\* transactions are stored
C6_Witness ==
    /\ response.route = "/callback"
    /\ response.res.status = 404
    /\ DOMAIN mpesa_transactions # {}

\* C7 - Every callback with the expected structure is answered 200 with
\* ResultCode 0, unless the store failed; only a malformed body gets a 400.
C7_AlwaysAcknowledged ==
    response.route = "/callback"
    => \/ response.res.status = 200 /\ response.res.ResultCode = 0
       \/ response.res.status = 400 /\ response.res.message = "Invalid callback data"
       \/ response.res.status = 500 /\ response.res.message = StoreFailure

\* C8 - Amount gate: initiatePayment goes on to the provider only with an
\* amount within 0.01 of the order's total.
C8_AmountGate ==
    [][\A p \in Procs :
          (pc[p] = "idle" /\ pc'[p] = "i_token")
          => /\ body'[p].amount.kind = "num"
             /\ Abs(orders[body'[p].orderId].total_amount - body'[p].amount.cents)
                  <= Tolerance]_vars

\* the three writes of a success callback, as C9 states them; anyMethod: the
\* payment record is confirmed whatever its method
HappyPathWrites(p, anyMethod) ==
    /\ (pc[p] = "c_s_ledger" /\ pc'[p] = "c_s_payment")
       => /\ mpesa_transactions'[body[p].CheckoutRequestID].status = "completed"
          /\ mpesa_transactions'[body[p].CheckoutRequestID].mpesa_receipt_number
               = MetadataValue(body[p].CallbackMetadata, "MpesaReceiptNumber")
          /\ mpesa_transactions'[body[p].CheckoutRequestID].transaction_date
               = MetadataValue(body[p].CallbackMetadata, "TransactionDate")
    /\ (pc[p] = "c_s_payment" /\ pc'[p] = "c_s_order" /\ payments[local[p].orderId].exists)
       => IF anyMethod \/ payments[local[p].orderId].method = "mpesa"
          THEN /\ payments'[local[p].orderId].is_confirmed
               /\ payments'[local[p].orderId].mpesa_code
                    = MetadataValue(body[p].CallbackMetadata, "MpesaReceiptNumber")
          ELSE payments'[local[p].orderId] = payments[local[p].orderId]
    /\ (pc[p] = "c_s_order" /\ pc'[p] = "idle" /\ response'.res.status = 200)
       => orders'[local[p].orderId].status = "processing"

\* C9 as stated - Happy path: a callback with result code 0 makes the
\* transaction completed with the receipt and the timestamp of its metadata,
\* the payment record of the order confirmed with that receipt, and the order
\* processing.
C9_HappyPathAsStated == [][\A p \in Procs : HappyPathWrites(p, TRUE)]_vars

\* C9 - Happy path, amended: as above, but the payment record is confirmed
\* only if its method is mpesa; a record of another method stays as it is.
C9_HappyPath == [][\A p \in Procs : HappyPathWrites(p, FALSE)]_vars

\* C9 witness: the scenario of the spec has run to its end
C9_Witness ==
    /\ response.route = "/callback"
    /\ response.res.status = 200
    /\ \E id \in DOMAIN mpesa_transactions :
         /\ mpesa_transactions[id].status = "completed"
         /\ mpesa_transactions[id].mpesa_receipt_number = "ABC123"
         /\ mpesa_transactions[id].order_id = 1
    /\ payments[1].is_confirmed
    /\ payments[1].mpesa_code = "ABC123"
    /\ orders[1].status = "processing"

\* C10 - Provider failure callback: unless the store failed, the handler of
\* a callback with a non-success code for a pending transaction ends with
\* the transaction failed with the provider's code and description, the order
\* failed, and the description appended to the order's notes.
C10_ProviderFailure ==
    [][\A p \in Procs :
          (/\ pc[p] = "c_f_order"
           /\ local[p].status = "pending"
           /\ pc'[p] = "idle"
           /\ ~EndsWith(p, StoreFailure))
          => /\ mpesa_transactions'[body[p].CheckoutRequestID].status = "failed"
             /\ mpesa_transactions'[body[p].CheckoutRequestID].result_code = body[p].ResultCode.val
             /\ mpesa_transactions'[body[p].CheckoutRequestID].result_desc = body[p].ResultDesc
             /\ orders'[local[p].orderId].status = "failed"
             /\ orders'[local[p].orderId].notes
                  = Notes(orders[local[p].orderId].notes.text
                          \o <<" | Payment failed: ", body[p].ResultDesc>>)]_vars

\* C11 - Order/ledger coupling: every change of an order's status is made by
\* a callback that found a transaction of that order pending, to processing
\* when that transaction became completed and to failed when it became
\* failed or cancelled; and unless the store failed, a callback that found
\* its transaction pending ends with the order in the status that goes with
\* the transaction's new status.
C11_OrderLedgerCoupling ==
    [][/\ \A o \in OrderIds :
            orders'[o].status # orders[o].status
            => \E p \in Procs :
                 /\ Steps(p)
                 /\ pc[p] \in {"c_s_order", "c_f_order"}
                 /\ local[p].orderId = o
                 /\ local[p].status = "pending"
                 /\ \/ /\ orders'[o].status = "processing"
                       /\ mpesa_transactions[body[p].CheckoutRequestID].status = "completed"
                    \/ /\ orders'[o].status = "failed"
                       /\ mpesa_transactions[body[p].CheckoutRequestID].status
                            \in {"failed", "cancelled"}
       /\ \A p \in Procs :
            (/\ pc[p] \in {"c_s_order", "c_f_order"}
             /\ local[p].status = "pending"
             /\ pc'[p] = "idle"
             /\ ~EndsWith(p, StoreFailure))
            => orders'[local[p].orderId].status
                 = (IF mpesa_transactions[body[p].CheckoutRequestID].status = "completed"
                    THEN "processing" ELSE "failed")]_vars

\* the transactions of order o that are pending
PendingOf(o) ==
    {id \in DOMAIN mpesa_transactions :
        mpesa_transactions[id].order_id = o /\ mpesa_transactions[id].status = "pending"}

\* C12 - At any time at most one transaction of an order is pending.
C12_OnePendingPerOrder == \A o \in OrderIds : Cardinality(PendingOf(o)) <= 1

\* C13 - One transaction per CheckoutRequestID: when initiatePayment comes to
\* its INSERT with an identifier that is already stored, the transactions stay
\* as they are (no second row, the stored row untouched) and the request is
\* answered with the store's error.
C13_UniqueCheckoutId ==
    [][\A p \in Procs :
          (/\ pc[p] = "i_insert"
           /\ local[p].checkoutRequestID \in DOMAIN mpesa_transactions
           /\ Steps(p))
          => /\ mpesa_transactions' = mpesa_transactions
             /\ pc'[p] = "idle"
             /\ response'.res.status = 500]_vars

\* C13 witness: an INSERT with a stored identifier was rejected as a duplicate
C13_Witness ==
    /\ response.route = "/stkpush"
    /\ response.res.status = 500
    /\ response.res.message = UniqueViolation
    /\ Cardinality(DOMAIN mpesa_transactions) = 1

\* the statements of initiatePayment that wait for the provider
GatewayCall == {"i_token", "i_push"}

\* C14 - Gateway failure: while initiatePayment waits for the provider it
\* writes nothing; when the call fails (token, rejection or transport), the
\* handler ends there with the failure as its answer, and it comes to its
\* INSERT only with a successful result.
C14_GatewayFailure ==
    [][\A p \in Procs :
          /\ (pc[p] \in GatewayCall /\ Steps(p)) => db' = db
          /\ (pc[p] \in GatewayCall /\ pc'[p] = "idle")
             => \E failed \in {FailedPush, RejectedPush} :
                  response' = [route |-> "/stkpush",
                               res |-> [status |-> 400, message |-> failed.error]]
          /\ (pc[p] \in GatewayCall /\ pc'[p] = "i_insert") => local'[p].success]_vars

\* C14 witness: a push failed at the provider and nothing is stored
C14_Witness ==
    /\ response = [route |-> "/stkpush",
                   res |-> [status |-> 400, message |-> "Failed to initiate payment"]]
    /\ mpesa_transactions = <<>>
    /\ orders = InitialOrders
    /\ payments = InitialPayments

\* a body the field validations are to reject: a field is missing, the phone
\* does not match the pattern, or the amount is a number below 1
FieldsInvalid(b) ==
    \/ b.phoneNumber = MissingPhone
    \/ b.amount.kind = "missing"
    \/ b.orderId = MissingOrderId
    \/ ~PhoneRegexTest(b.phoneNumber)
    \/ b.amount.kind = "num" /\ b.amount.cents < 100

InvalidBodies == {b \in InitiateBodies : FieldsInvalid(b)}

\* every body with invalid fields is answered 400 by the checks of the body
FieldsRejected ==
    \A b \in InvalidBodies :
        FieldChecks(b).next = "idle" /\ FieldChecks(b).res.status = 400

\* C15 - Validation: a body with invalid fields is answered 400 by checks
\* that read the body alone; initiatePayment goes on to the provider only
\* with valid fields and the id of an order that exists; and a request that
\* does not go on is answered with an error in its first step, having written
\* nothing.
C15_ValidationRejects ==
    [][/\ FieldsRejected
       /\ \A p \in Procs :
            (pc[p] = "idle" /\ pc'[p] = "i_token")
            => /\ ~FieldsInvalid(body'[p])
               /\ body'[p].orderId \in DOMAIN orders
       /\ (requests' # requests /\ pc' = pc /\ response'.route = "/stkpush")
          => /\ db' = db
             /\ response'.res.status \in {400, 404, 500}]_vars

\* C15 witness: a request with a phone that does not match the pattern was
\* rejected while a transaction is stored, and the store is as the insert
\* left it
C15_Witness ==
    /\ response.route = "/stkpush"
    /\ response.res.status = 400
    /\ response.res.message = "Invalid phone number format"
    /\ Cardinality(DOMAIN mpesa_transactions) = 1
    /\ \A id \in DOMAIN mpesa_transactions : mpesa_transactions[id].status = "pending"

\* the statements of queryPaymentStatus that wait for the provider
StatusCall == {"q_token", "q_post"}

\* C16 - queryPaymentStatus is read-only: none of its steps changes a
\* transaction, an order or a payment record, whatever the provider answers;
\* a transaction leaves pending only by the transaction write of a callback
\* for its identifier.
C16_QueryReadOnly ==
    [][/\ \A p \in Procs :
            ((pc[p] \in StatusCall \/ pc'[p] \in StatusCall) /\ Steps(p)) => db' = db
       /\ (requests' # requests /\ pc' = pc /\ response'.route = "/query") => db' = db
       /\ \A id \in DOMAIN mpesa_transactions :
            (mpesa_transactions[id].status = "pending"
             /\ mpesa_transactions'[id].status # "pending")
            => \E p \in Procs :
                 /\ pc[p] \in {"c_s_ledger", "c_f_ledger"}
                 /\ Steps(p)
                 /\ body[p].CheckoutRequestID = id]_vars

\* C16 witness: the provider told a query that the payment is complete, and
\* the transaction is still pending
C16_Witness ==
    /\ response.route = "/query"
    /\ response.res.status = 200
    /\ response.res.txnStatus = "completed"
    /\ DOMAIN mpesa_transactions # {}
    /\ \A id \in DOMAIN mpesa_transactions : mpesa_transactions[id].status = "pending"

\* C17 - A query for a transaction in a terminal status is answered in its
\* first step with the stored status, result code, result description and
\* receipt number; queryPaymentStatus goes on to the provider only for a
\* transaction that is pending.
C17_TerminalQueryCached ==
    [][/\ \A id \in DOMAIN mpesa_transactions :
            mpesa_transactions[id].status \in TerminalStatus
            => QueryOutcome([kind |-> "query", checkoutRequestID |-> id], FALSE)
                 = [next |-> "idle",
                    res |-> [status |-> 200,
                             txnStatus |-> mpesa_transactions[id].status,
                             resultCode |-> mpesa_transactions[id].result_code,
                             resultDesc |-> mpesa_transactions[id].result_desc,
                             mpesaReceiptNumber |-> mpesa_transactions[id].mpesa_receipt_number]]
       /\ \A p \in Procs :
            (pc[p] = "idle" /\ pc'[p] \in StatusCall)
            => /\ body'[p].checkoutRequestID \in DOMAIN mpesa_transactions
               /\ mpesa_transactions[body'[p].checkoutRequestID].status = "pending"]_vars

\* C17 witness: a query for a completed transaction was answered with what
\* the callback stored
C17_Witness ==
    /\ response.route = "/query"
    /\ response.res.status = 200
    /\ response.res.txnStatus = "completed"
    /\ \E id \in DOMAIN mpesa_transactions :
         /\ mpesa_transactions[id].status = "completed"
         /\ response.res = [status |-> 200, txnStatus |-> "completed",
                            resultCode |-> mpesa_transactions[id].result_code,
                            resultDesc |-> mpesa_transactions[id].result_desc,
                            mpesaReceiptNumber |-> "ABC123"]

\* C18 - Phone normalization: formatPhoneNumber returns 254 followed by the
\* subscriber number for the local form (leading 0), the international form
\* with the plus, the international form without it and the bare nine digits
\* alike; so "0712345678", "+254712345678" and "254712345678" all give
\* "254712345678".
C18_PhoneNormalization ==
    formatted.done
    => \A s \in Subscribers :
         \A prefix \in {<<"0">>, <<"+", "2", "5", "4">>, <<"2", "5", "4">>, <<>>} :
            phone = prefix \o s => formatted.value = <<"2", "5", "4">> \o s

\* C18 witness: formatPhoneNumber("+254712345678") returned "254712345678"
C18_Witness ==
    /\ formatted.done
    /\ phone = <<"+", "2", "5", "4", "7", "1", "2", "3", "4", "5", "6", "7", "8">>
    /\ formatted.value = <<"2", "5", "4", "7", "1", "2", "3", "4", "5", "6", "7", "8">>

\* C19 - Malformed callback: a body without Body or without Body.stkCallback
\* is answered 400 "Invalid callback data" whether or not the store can be
\* read; only a body with the nested structure comes to the statements that
\* write; and a callback answered in its first step has written nothing.
C19_MalformedCallback ==
    [][/\ \A thrown \in BOOLEAN :
            CallbackOutcome(MalformedBody, thrown)
              = [next |-> "idle",
                 res |-> [status |-> 400, message |-> "Invalid callback data"]]
       /\ \A p \in Procs :
            (pc[p] = "idle" /\ pc'[p] \in CallbackWriting) => body'[p].hasStk
       /\ (requests' # requests /\ pc' = pc /\ response'.route = "/callback")
          => db' = db]_vars

\* C19 witness: a malformed callback was rejected while a transaction is
\* pending, and nothing of the store has changed
C19_Witness ==
    /\ response = [route |-> "/callback",
                   res |-> [status |-> 400, message |-> "Invalid callback data"]]
    /\ DOMAIN mpesa_transactions # {}
    /\ \A id \in DOMAIN mpesa_transactions : mpesa_transactions[id].status = "pending"
    /\ orders = InitialOrders
    /\ payments = InitialPayments

\* C20 - Persistence errors: a callback is acknowledged with 200 only after
\* the last write of its branch was made, so a failed write is answered
\* non-200; and a callback with the expected structure that is answered
\* non-200 was stopped by a failure of the store, never by anything else.
C20_OnlyPersistenceErrors ==
    [][/\ \A p \in Procs :
            (pc[p] \in CallbackWriting /\ pc'[p] = "idle" /\ response'.res.status = 200)
            => \/ pc[p] = "c_s_order" /\ orders' = ProcessOrder(local[p].orderId)
               \/ pc[p] = "c_f_order" /\ orders' = FailOrder(body[p].ResultDesc, local[p].orderId)
       /\ \A p \in Procs :
            (pc[p] \in CallbackWriting /\ pc'[p] = "idle" /\ response'.res.status # 200)
            => response'.res.status = 500
       /\ (requests' # requests /\ pc' = pc /\ response'.route = "/callback")
          => \/ response'.res = [status |-> 400, message |-> "Invalid callback data"]
             \/ response'.res.status = 500]_vars

\* C21 - Termination: every initiatePayment and every queryPaymentStatus that
\* has come to call the provider is answered in the end, whether or not the
\* provider answers.
C21_EveryRequestAnswered ==
    \A p \in Procs : (pc[p] \in GatewayCall \cup StatusCall) ~> (pc[p] = "idle")

\* C22 - initiateSTKPush returns a tagged failure when the provider rejects
\* the push and throws only when the transport fails: a push request that
\* ends the handler is answered 400 with the provider's error (the tagged
\* failure) or 500 by the error handler (the exception of a transport
\* failure).
C22_ThrowsOnlyForTransport ==
    [][\A p \in Procs :
          (pc[p] = "i_push" /\ pc'[p] = "idle")
          => \/ response'.res = [status |-> 400, message |-> RejectedPush.error]
             \/ response'.res.status = 500]_vars

\* C23 - Successful initiate: the INSERT that is answered 200 adds exactly one
\* transaction, under the identifier the provider returned, pending, with the
\* order id, the phone, the amount and the merchant request identifier of the
\* request, and no receipt; the other transactions, the orders and the
\* payment records stay as they are.
C23_SuccessfulInitiate ==
    [][\A p \in Procs :
          (pc[p] = "i_insert" /\ pc'[p] = "idle" /\ response'.res.status = 200)
          => /\ local[p].checkoutRequestID \notin DOMAIN mpesa_transactions
             /\ DOMAIN mpesa_transactions'
                  = DOMAIN mpesa_transactions \cup {local[p].checkoutRequestID}
             /\ \A id \in DOMAIN mpesa_transactions :
                  mpesa_transactions'[id] = mpesa_transactions[id]
             /\ mpesa_transactions'[local[p].checkoutRequestID]
                  = [order_id |-> body[p].orderId,
                     merchant_request_id |-> local[p].merchantRequestID,
                     phone_number |-> body[p].phoneNumber,
                     amount |-> body[p].amount.cents,
                     mpesa_receipt_number |-> NULL,
                     transaction_date |-> NULL,
                     status |-> "pending",
                     result_code |-> NULL,
                     result_desc |-> NULL]
             /\ response'.res.checkoutRequestID = local[p].checkoutRequestID
             /\ orders' = orders
             /\ payments' = payments]_vars

\* C23 witness: the push for order 1 was accepted and stored; the order is
\* still pending and its payment record unconfirmed
C23_Witness ==
    /\ response.route = "/stkpush"
    /\ response.res.status = 200
    /\ response.res.checkoutRequestID \in DOMAIN mpesa_transactions
    /\ mpesa_transactions[response.res.checkoutRequestID].status = "pending"
    /\ mpesa_transactions[response.res.checkoutRequestID].order_id = 1
    /\ orders[1].status = "pending"
    /\ ~payments[1].is_confirmed

\* C24 - A transaction carries a receipt number only if it is completed.
C24_ReceiptOnlyIfCompleted ==
    \A id \in DOMAIN mpesa_transactions :
        mpesa_transactions[id].mpesa_receipt_number # NULL
        => mpesa_transactions[id].status = "completed"

\* C25 - Branch on the result code: a callback for a stored transaction takes
\* the success branch exactly when its ResultCode is the number 0; the
\* success branch makes the transaction completed with the receipt of the
\* metadata, NULL when the metadata or the item is missing, and the order
\* processing; and unless the store failed, the branch of every other code
\* ends with the transaction failed and the order failed.
C25_TransitionByResultCode ==
    [][\A p \in Procs :
          /\ (pc[p] = "idle" /\ pc'[p] \in CallbackWriting)
             => (pc'[p] = "c_s_ledger" <=> body'[p].ResultCode = NumCode(0))
          /\ (pc[p] = "c_s_ledger" /\ pc'[p] = "c_s_payment")
             => /\ mpesa_transactions'[body[p].CheckoutRequestID].status = "completed"
                /\ mpesa_transactions'[body[p].CheckoutRequestID].mpesa_receipt_number
                     = MetadataValue(body[p].CallbackMetadata, "MpesaReceiptNumber")
          /\ (pc[p] = "c_s_order" /\ pc'[p] = "idle" /\ ~EndsWith(p, StoreFailure))
             => orders'[local[p].orderId].status = "processing"
          /\ (pc[p] = "c_f_order" /\ pc'[p] = "idle" /\ ~EndsWith(p, StoreFailure))
             => /\ mpesa_transactions'[body[p].CheckoutRequestID].status = "failed"
                /\ orders'[local[p].orderId].status = "failed"]_vars

\* the push with the identifier id was accepted by the provider and its
\* INSERT is still to come
InsertAhead(id) ==
    \E p \in Procs : pc[p] = "i_insert" /\ local[p].checkoutRequestID = id

\* the callback handled last was for id and found no transaction
CallbackMissed(id) ==
    /\ response.route = "/callback"
    /\ response.res.status = 404
    /\ response.res.logged = id

\* C26 - Eventual reconciliation: as long as callbacks are handled only for
\* pushes the provider accepted, a callback handled before the INSERT of
\* initiatePayment (and so answered 404) still leads to the transaction of
\* that push reaching a terminal status (unless the INSERT fails and there is
\* no transaction).
C26_CallbackBeforeInsert ==
    \A id \in CheckoutIds :
        [](CallbackMissed(id) => InsertAhead(id))
        => (CallbackMissed(id)
            ~> \/ id \in DOMAIN mpesa_transactions
                  /\ mpesa_transactions[id].status \in TerminalStatus
               \/ id \notin DOMAIN mpesa_transactions /\ ~InsertAhead(id))

C28_OnlyPendingOrders ==
    [][/\ \A o \in OrderIds :
            orders'[o].status # orders[o].status => orders[o].status = "pending"
       /\ \A id \in DOMAIN mpesa_transactions' \ DOMAIN mpesa_transactions :
            orders[mpesa_transactions'[id].order_id].status = "pending"]_vars

\* C29 - The status query of a pending transaction is answered with the
\* status completed exactly when the provider's result code is the string
\* '0' and with pending for every other code the provider reports, never with
\* failed; the step leaves the transaction as it was.
C29_PendingQueryReport ==
    [][/\ \A resultCode \in StatusResultCodes :
            QueryAnswer(StatusAnswered(resultCode)).txnStatus
              = IF resultCode = StrCode(0) THEN "completed" ELSE "pending"
       /\ \A p \in Procs :
            (pc[p] = "q_post" /\ Steps(p))
            => /\ response'.route = "/query"
               /\ response'.res.status \in {200, 400}
               /\ response'.res.status = 200
                  => /\ response'.res.txnStatus \in {"completed", "pending"}
                     /\ response'.res.txnStatus = "completed"
                        <=> response'.res.resultCode = StrCode(0)
               /\ mpesa_transactions'[body[p].checkoutRequestID]
                    = mpesa_transactions[body[p].checkoutRequestID]]_vars

\* C29 witness: the provider reported the cancellation to the query of a
\* pending transaction; the answer says pending and the transaction is pending
C29_Witness ==
    /\ response.route = "/query"
    /\ response.res.status = 200
    /\ response.res.txnStatus = "pending"
    /\ response.res.resultCode = StrCode(1032)
    /\ DOMAIN mpesa_transactions # {}
    /\ \A id \in DOMAIN mpesa_transactions : mpesa_transactions[id].status = "pending"

\* C30 - A phone number that passes the pattern of initiatePayment is
\* returned by formatPhoneNumber as twelve digits: 254, then the 1 or 7 and
\* the eight digits the number ends with; and formatPhoneNumber called with a
\* value it returned returns that value, whatever the first argument was.
C30_ValidPhoneTwelveDigits ==
    /\ (formatted.done /\ ~formatted.again /\ PhoneRegexTest(phone))
       => /\ Len(formatted.value) = 12
          /\ \A i \in 1..12 : formatted.value[i] \in Digits
          /\ SubSeq(formatted.value, 1, 3) = <<"2", "5", "4">>
          /\ formatted.value[4] \in {"1", "7"}
          /\ SubSeq(formatted.value, 4, 12) = SubSeq(phone, Len(phone) - 8, Len(phone))
    /\ (formatted.done /\ formatted.again) => formatted.value = phone

\* C30 witness: formatPhoneNumber("0712345678") returned "254712345678", and
\* called with "254712345678" returned it again
C30_Witness ==
    /\ formatted.done
    /\ formatted.again
    /\ phone = <<"2", "5", "4", "7", "1", "2", "3", "4", "5", "6", "7", "8">>
    /\ formatted.value = phone

====
